---- MODULE Spec2Model ----
(***************************************************************************)
(* Model of geotag.py: the import of a location history into per-day GPX   *)
(* files (parse_json, gpx_import), the exiftool batch (ExifTagger), the    *)
(* ON1 JSON sidecar tagger (On1Tagger) and the degree -> DMS conversion.   *)
(*                                                                         *)
(* Angles are fixed point: one arc second is SecRes units, so a decimal    *)
(* degree d is the integer d * 3600 * SecRes.                              *)
(***************************************************************************)
EXTENDS Integers, Sequences, FiniteSets, TLC

VARIABLES
    command,        \* args.command: which subcommand main() dispatched
    pc,             \* position of the running subcommand
    \* ---- import
    inputExists,    \* os.path.exists(args.input)
    doc,            \* the JSON document: a sequence of segments of records
    dirs,           \* directories of the file system
    files,          \* files of the track tree: path -> points written
    lookup,         \* last result of ExifTagger.gpx_path: path and existence
    \* ---- exif
    inputKind,      \* args.input of exif: "file", "dir" or "missing"
    photos,         \* the artifacts of the batch, in enumeration order
    idx,            \* next artifact of the batch loop
    dry_run,        \* args.dry_run
    toolCalls,      \* artifacts for which exiftool -geotag was run
    log,            \* messages printed, as <<artifact, message>>
    \* ---- on1
    sidecar,        \* content of the .on1 file: the photos entries
    sidecarExists,  \* os.path.isfile(<filename>.on1)
    rawUpper,       \* the RAW file with upper-case extension, or NoFile
    rawLower,       \* the RAW file with lower-case extension, or NoFile
    force,          \* args.force
    calls,          \* number of update_gps calls made
    writes,         \* number of write_json calls made
    \* ---- deg2dms
    dd,             \* decimal degrees handed to deg2dms
    dms             \* the tuple deg2dms returned

importVars == <<inputExists, doc, dirs, files, lookup>>
exifVars == <<inputKind, photos, idx, dry_run, toolCalls, log>>
on1Vars == <<sidecar, sidecarExists, rawUpper, rawLower, force, calls, writes>>
dmsVars == <<dd, dms>>
vars == <<command, pc, importVars, exifVars, on1Vars, dmsVars>>

\* ------------------------------------------------------------------ bounds
SecRes == 2         \* units per arc second
MaxDeg == 2         \* deg2dms inputs range over -MaxDeg .. MaxDeg degrees
MaxEntries == 2     \* photos entries of a sidecar
MaxCalls == 3       \* update_gps calls on one sidecar
MaxPhotos == 3      \* artifacts of an exif batch
MaxSegments == 2    \* semanticSegments of a document
MaxPath == 2        \* timelinePath records of a segment

Abs(x) == IF x < 0 THEN -x ELSE x

None == [kind |-> "none"]

\* ------------------------------------------------------------- idle values
ImportIdle ==
    /\ inputExists = FALSE /\ doc = <<>> /\ dirs = {} /\ files = <<>>
    /\ lookup = None
ExifIdle ==
    /\ inputKind = "missing" /\ photos = <<>> /\ idx = 0 /\ dry_run = FALSE /\ toolCalls = {}
    /\ log = {}
On1Idle ==
    /\ sidecar = <<>> /\ sidecarExists = FALSE /\ rawUpper = None
    /\ rawLower = None /\ force = FALSE /\ calls = 0 /\ writes = 0
DmsIdle == dd = 0 /\ dms = None

\* ================================================================ deg2dms
\* divmod(a, b) for b > 0: Python floors, as \div and % do.
divmod(a, b) == <<a \div b, a % b>>

deg2dms_NoMinutes(d) ==
    LET negative == d < 0
        a == Abs(d)
        ms == divmod(a, 60 * SecRes)
        dm == divmod(ms[1], 60)
        degrees == dm[1]
        minutes == dm[2]
        seconds == ms[2]
    IN  IF negative
        THEN IF degrees > 0 THEN <<-degrees, minutes, seconds>>
             ELSE <<degrees, minutes, -seconds>>
        ELSE <<degrees, minutes, seconds>>

\* On1Tagger.deg2dms: <<degrees, minutes, seconds>>, seconds in units.
deg2dms(d) ==
    LET negative == d < 0
        a == Abs(d)
        ms == divmod(a, 60 * SecRes)    \* dd * 3600 is a / SecRes seconds
        dm == divmod(ms[1], 60)
        degrees == dm[1]
        minutes == dm[2]
        seconds == ms[2]
    IN  IF negative
        THEN IF degrees > 0 THEN <<-degrees, minutes, seconds>>
             ELSE IF minutes > 0 THEN <<degrees, -minutes, seconds>>
             ELSE <<degrees, minutes, -seconds>>
        ELSE <<degrees, minutes, seconds>>

DegInputs == (-(MaxDeg * 3600 * SecRes)) .. (MaxDeg * 3600 * SecRes)

InitDms ==
    /\ command = "deg2dms" /\ pc = "start"
    /\ dd \in DegInputs /\ dms = None
    /\ ImportIdle /\ ExifIdle /\ On1Idle

\* The call h, m, s = self.deg2dms(float(geo[0])).
Deg2Dms ==
    /\ command = "deg2dms" /\ pc = "start"
    /\ dms' = deg2dms(dd)
    /\ pc' = "done"
    /\ UNCHANGED <<command, dd, importVars, exifVars, on1Vars>>

NextDms == Deg2Dms
SpecDms == InitDms /\ [][NextDms]_vars

Sign(x) == IF x < 0 THEN -1 ELSE IF x > 0 THEN 1 ELSE 0
Negatives(t) == {i \in 1..3 : t[i] < 0}
FirstNonZero(t) == IF t[1] # 0 THEN 1 ELSE IF t[2] # 0 THEN 2 ELSE 3

\* C9: deg2dms round-trips. For every d in range the result has |minutes| < 60
\* and |seconds| < 60, no negative component when d >= 0 and exactly the first
\* non-zero component negative when d < 0, and
\* sign(d) * (|degrees| + |minutes|/60 + |seconds|/3600) equals d.
C9_Deg2DmsRoundTrip ==
    (command = "deg2dms" /\ pc = "done") =>
        /\ Abs(dms[2]) < 60
        /\ Abs(dms[3]) < 60 * SecRes
        /\ Cardinality(Negatives(dms)) <= 1
        /\ (dd >= 0 => Negatives(dms) = {})
        /\ (dd < 0 => Negatives(dms) = {FirstNonZero(dms)})
        /\ Sign(dd) * (Abs(dms[1]) * 3600 * SecRes + Abs(dms[2]) * 60 * SecRes
                       + Abs(dms[3])) = dd

\* A negative angle below one degree with whole minutes was converted.
C9_Witness ==
    /\ command = "deg2dms" /\ pc = "done"
    /\ dd < 0 /\ dms[1] = 0 /\ dms[2] < 0 /\ dms[3] = 0

\* ============================================================== On1Tagger
NoFile == [kind |-> "nofile"]
Num(n) == [num |-> TRUE, val |-> n]     \* a token float() parses
NotNum == [num |-> FALSE, val |-> 0]    \* a token float() rejects
Stdout(c, t) == [kind |-> "file", colon |-> c, tokens |-> t]

\* 49 deg 39' 11.5" and -18 deg 7' 29.5", and -0 deg 30' 0".
LatA == (49 * 3600 + 39 * 60 + 11) * SecRes + 1
LonA == -((18 * 3600 + 7 * 60 + 29) * SecRes + 1)
LatB == -(30 * 60 * SecRes)

\* What exiftool -n -GPSPosition prints for a RAW file, or NoFile.
RawStates ==
    { NoFile,
      Stdout(FALSE, <<>>),                  \* no "name : value" line
      Stdout(TRUE, <<>>),                   \* an empty value
      Stdout(TRUE, <<Num(LatA)>>),          \* one token only
      Stdout(TRUE, <<NotNum, Num(LonA)>>),  \* a token that is no number
      Stdout(TRUE, <<Num(LatA), Num(LonA)>>),
      Stdout(TRUE, <<Num(LatB), Num(1)>>) }

\* On1Tagger.read_geo: the tokens after the first colon, or None.
List(t) == [kind |-> "list", tokens |-> t]
read_geo(raw) == IF raw.colon THEN List(raw.tokens) ELSE None

\* n / d rounded to the nearest integer, ties to even (n >= 0, d > 0).
RoundDiv(n, d) ==
    LET q == n \div d
        r == n % d
    IN  IF 2 * r < d THEN q
        ELSE IF 2 * r > d THEN q + 1
        ELSE IF q % 2 = 0 THEN q ELSE q + 1

\* On1Tagger.geo_format: degrees and minutes with no decimals, seconds with
\* six: the third component is the printed seconds in millionths.
geo_format(h, m, s) ==
    <<h, m, Sign(s) * RoundDiv(Abs(s) * 1000000, SecRes)>>

Raise == [kind |-> "raise"]
Gps(lat, lon) == [kind |-> "str", lat |-> lat, lon |-> lon]

\* On1Tagger.gps_from_raw: the "lat N lon E" string, None when there is no
\* RAW file or no position, Raise when float() or geo[1] raises.
gps_from_raw ==
    LET geo == IF rawUpper # NoFile THEN read_geo(rawUpper)
               ELSE IF rawLower # NoFile THEN read_geo(rawLower)
               ELSE None
        t == geo.tokens
    IN  IF geo = None \/ geo = List(<<>>) THEN None  \* "if geo:" is false
        ELSE IF ~t[1].num THEN Raise                \* ValueError
        ELSE IF Len(t) < 2 THEN Raise               \* IndexError
        ELSE IF ~t[2].num THEN Raise                \* ValueError
        ELSE LET a == deg2dms(t[1].val)
                 b == deg2dms(t[2].val)
             IN  Gps(geo_format(a[1], a[2], a[3]),
                     geo_format(b[1], b[2], b[3]))

\* A photos entry: no metadata, metadata without a GPS key, or a GPS value
\* (None is JSON null).
NoMeta == [kind |-> "nometa"]
NoGps == [kind |-> "nogps"]
GpsOld == Gps(<<49, 39, 11043217>>, <<18, 7, 29517118>>)
EntryStates == {NoMeta, NoGps, None, GpsOld}

\* meta["GPS"] = gps; self.write_json(str(f), json)
set_gps(st, i, gps) ==
    IF gps = Raise THEN [st EXCEPT !.raised = TRUE]
    ELSE LET j == [st.json EXCEPT ![i] = gps]
         IN  [st EXCEPT !.json = j, !.disk = j, !.writes = @ + 1]

update_entry_IgnoreForce(st, i) ==
    LET meta == st.json[i]
    IN  IF st.raised \/ meta = NoMeta THEN st
        ELSE set_gps(st, i, gps_from_raw)

update_entry_NullAsMissing(st, i) ==
    LET meta == st.json[i]
    IN  IF st.raised \/ meta = NoMeta THEN st
        ELSE IF meta # NoGps /\ ~force /\ meta # None THEN st
        ELSE set_gps(st, i, gps_from_raw)

\* One iteration of the loop over json["photos"] in update_gps.
update_entry(st, i) ==
    LET meta == st.json[i]
    IN  IF st.raised \/ meta = NoMeta THEN st
        ELSE IF meta # NoGps                    \* "GPS" in meta
        THEN IF force THEN set_gps(st, i, gps_from_raw)
             ELSE st                            \* missing data / [noop]
        ELSE set_gps(st, i, gps_from_raw)       \* [write]

RECURSIVE update_loop(_, _)
update_loop(st, i) ==
    IF i > Len(st.json) THEN st
    ELSE update_loop(update_entry(st, i), i + 1)

Sidecars == UNION {[1..n -> EntryStates] : n \in 0..MaxEntries}

InitOn1 ==
    /\ command = "on1" /\ pc = "ready"
    /\ sidecar \in Sidecars
    /\ sidecarExists \in BOOLEAN
    /\ rawUpper \in RawStates /\ rawLower \in RawStates
    /\ force \in BOOLEAN
    /\ calls = 0 /\ writes = 0
    /\ ImportIdle /\ ExifIdle /\ DmsIdle

\* On1Tagger.update_gps(file); isOn1 says whether file ends in ".on1" (then
\* it is a file apply found, so it exists).
UpdateGps(isOn1) ==
    /\ command = "on1" /\ pc = "ready" /\ calls < MaxCalls
    /\ isOn1 => sidecarExists
    /\ calls' = calls + 1
    /\ IF ~isOn1 /\ ~sidecarExists
       THEN UNCHANGED <<pc, sidecar, writes>>   \* could not find on1 sidecar
       ELSE LET st == update_loop([json |-> sidecar, disk |-> sidecar,
                                   writes |-> writes, raised |-> FALSE], 1)
            IN  /\ sidecar' = st.disk
                /\ writes' = st.writes
                /\ pc' = IF st.raised THEN "raised" ELSE "ready"
    /\ UNCHANGED <<command, sidecarExists, rawUpper, rawLower, force,
                   importVars, exifVars, dmsVars>>

NextOn1 == \E isOn1 \in BOOLEAN : UpdateGps(isOn1)
SpecOn1 == InitOn1 /\ [][NextOn1]_vars

On1Call == command = "on1" /\ calls' = calls + 1
Resolvable == gps_from_raw # None /\ gps_from_raw # Raise
ExtractionFails == gps_from_raw = None
Entries == DOMAIN sidecar

\* C2: without force, the first update_gps on a found sidecar with a
\* resolvable RAW file gives every entry that has no GPS key the GPS string,
\* and every later update_gps leaves the sidecar content unchanged and does
\* not write the file.
C2_IdempotentWithoutForce ==
    [][(On1Call /\ ~force) =>
        /\ (calls = 0 /\ sidecarExists /\ Resolvable) =>
              \A i \in Entries :
                  sidecar[i] = NoGps => sidecar'[i] = gps_from_raw
        /\ calls >= 1 => (sidecar' = sidecar /\ writes' = writes)]_vars

\* A GPS string was inserted by the first call and two calls were made.
C2_Witness ==
    /\ command = "on1" /\ ~force /\ calls >= 2 /\ writes = 1
    /\ Resolvable /\ Len(sidecar) = 1 /\ sidecar[1] = gps_from_raw

\* C3 as stated: an entry whose GPS is null keeps null and the file is not
\* rewritten by update_gps, whatever the force flag.
C3_NullUntouchedAnyForce ==
    [][(On1Call /\ \E i \in Entries : sidecar[i] = None) =>
        /\ \A i \in Entries : sidecar[i] = None => sidecar'[i] = None
        /\ (\A i \in Entries : sidecar[i] # NoGps) => writes' = writes]_vars

\* C3 amended: with force = false an entry whose GPS is null keeps null,
\* and update_gps writes the file only when some other entry has no GPS key.
C3_NullUntouchedWithoutForce ==
    [][(On1Call /\ ~force /\ \E i \in Entries : sidecar[i] = None) =>
        /\ \A i \in Entries : sidecar[i] = None => sidecar'[i] = None
        /\ (\A i \in Entries : sidecar[i] # NoGps) => writes' = writes]_vars

\* update_gps ran without force on a sidecar that held a null GPS beside a
\* GPS string, with a position to read, and wrote nothing.
C3_Witness ==
    /\ command = "on1" /\ ~force /\ calls >= 1 /\ writes = 0 /\ pc = "ready"
    /\ sidecarExists /\ Resolvable
    /\ Len(sidecar) = 2 /\ sidecar[1] = None /\ sidecar[2] = GpsOld

\* C4: when the RAW GPS extraction fails (no RAW file of either case, or no
\* position read), update_gps adds or changes no GPS key and does not change
\* the sidecar.
C4_ExtractionFailureIsNoop ==
    [][(On1Call /\ ExtractionFails) =>
        (sidecar' = sidecar /\ writes' = writes)]_vars

\* ========================================================= dates and paths
Date(y, m, d) == [y |-> y, m |-> m, d |-> d]
Dates == {Date(2024, 1, 15), Date(2024, 3, 7), Date(2023, 11, 1)}

Digits == <<"0", "1", "2", "3", "4", "5", "6", "7", "8", "9">>
Digit(n) == Digits[n + 1]
DigitVal(c) == CHOOSE n \in 0..9 : Digit(n) = c

\* strftime("%Y"), strftime("%m") and strftime("%d") of a date.
strftime_Y(t) ==
    <<Digit(t.y \div 1000), Digit((t.y \div 100) % 10), Digit((t.y \div 10) % 10),
      Digit(t.y % 10)>>
strftime_m(t) == <<Digit(t.m \div 10), Digit(t.m % 10)>>
strftime_d(t) == <<Digit(t.d \div 10), Digit(t.d % 10)>>

\* os.path.join(root, "%Y", "%m", "%d.gpx"): the components of the path.
day_path(root, t) ==
    <<root, strftime_Y(t), strftime_m(t), strftime_d(t) \o <<".gpx">> >>

GpxRoot == "gpx"    \* args.gpx of exif and args.output of import

\* =============================================================== ExifTagger
\* What exiftool -DateTimeOriginal gives for an artifact: the return code and
\* what follows the first colon of stdout ("nocolon": no such line,
\* "unparsable": strptime raises), or the tool cannot be run at all.
Reader(rc, out) == [rc |-> rc, out |-> out]
Taken(t) == [kind |-> "date", date |-> t]
NoColon == [kind |-> "nocolon"]
Unparsable == [kind |-> "unparsable"]
CannotRun == [kind |-> "cannotrun"]
Artifacts ==
    { Reader(0, NoColon), Reader(1, NoColon), Reader(0, Unparsable),
      Reader(0, CannotRun),
      Reader(0, Taken(Date(2024, 1, 15))), Reader(0, Taken(Date(2024, 3, 7))) }

\* ExifTagger.date_taken: the parsed date or None; every exception is caught.
date_taken(f) == IF f.out.kind = "date" THEN f.out ELSE None

date_taken_log(i, f) ==
    IF f.out = CannotRun THEN {<<i, "Error">>}
    ELSE (IF f.rc # 0 THEN {<<i, "erorr">>} ELSE {})
         \cup (IF f.out = Unparsable THEN {<<i, "Error">>} ELSE {})

\* ExifTagger.gpx_path: the path, and the message when it does not exist.
gpx_path(t) == day_path(GpxRoot, t)
gpx_path_log(i, t) ==
    IF gpx_path(t) \in DOMAIN files THEN {} ELSE {<<i, "gpx not found">>}

TrackTrees ==
    {[p \in {day_path(GpxRoot, t) : t \in S} |-> <<>>] : S \in SUBSET Dates}

InitExif ==
    /\ command = "exif" /\ pc = "start"
    /\ inputKind \in {"file", "dir", "missing"}
    /\ photos \in UNION {[1..n -> Artifacts] : n \in 0..MaxPhotos}
    /\ inputKind = "file" => Len(photos) = 1
    /\ inputKind = "missing" => photos = <<>>
    /\ idx = 0
    /\ dry_run \in BOOLEAN
    /\ toolCalls = {} /\ log = {}
    /\ files \in TrackTrees
    /\ inputExists = FALSE /\ doc = <<>> /\ dirs = {} /\ lookup = None
    /\ On1Idle /\ DmsIdle

\* ExifTagger.apply up to the loop: a single file, a directory, or sys.exit.
ExifApply ==
    /\ command = "exif" /\ pc = "start"
    /\ pc' = IF inputKind = "missing" THEN "exit" ELSE "loop"
    /\ idx' = 1
    /\ UNCHANGED <<command, inputKind, photos, dry_run, toolCalls, log,
                   importVars, on1Vars, dmsVars>>

\* ExifTagger.process_photo on the next artifact: date_taken, gpx_path,
\* update_exif. gpx_path(None) raises AttributeError, which nothing catches.
ProcessPhoto ==
    /\ command = "exif" /\ pc = "loop" /\ idx <= Len(photos)
    /\ LET f == photos[idx]
           photo_date == date_taken(f)
       IN  IF photo_date = None
           THEN /\ pc' = "raised"
                /\ log' = log \cup date_taken_log(idx, f)
                /\ UNCHANGED <<idx, toolCalls>>
           ELSE /\ pc' = "loop"
                /\ idx' = idx + 1
                /\ log' = log \cup date_taken_log(idx, f)
                              \cup gpx_path_log(idx, photo_date.date)
                              \cup {<<idx, IF dry_run THEN "DRY RUN" ELSE "cmd">>}
                /\ toolCalls' = IF dry_run THEN toolCalls
                                ELSE toolCalls \cup {idx}
    /\ UNCHANGED <<command, inputKind, photos, dry_run, importVars, on1Vars,
                   dmsVars>>

\* The loop of ExifTagger.apply is exhausted: apply returns.
ExifReturn ==
    /\ command = "exif" /\ pc = "loop" /\ idx > Len(photos)
    /\ pc' = "done"
    /\ UNCHANGED <<command, exifVars, importVars, on1Vars, dmsVars>>

NextExif == ExifApply \/ ProcessPhoto \/ ExifReturn
SpecExif == InitExif /\ [][NextExif]_vars

ExifEnded == command = "exif" /\ pc \in {"done", "raised"}
Visited(i) == i < idx \/ (pc = "raised" /\ i = idx)

\* C1: in an exif batch an artifact whose capture date cannot be resolved is
\* skipped and never stops the batch: the batch does not end by an exception,
\* and when it has ended every artifact was visited and every artifact with
\* a date was handed to update_exif.
C1_FailureNeverBlocks ==
    /\ (command = "exif" => pc # "raised")
    /\ ExifEnded =>
          \A i \in 1..Len(photos) :
              /\ Visited(i)
              /\ date_taken(photos[i]) # None =>
                    \E msg \in {"DRY RUN", "cmd"} : <<i, msg>> \in log

\* C5: when the track file for an artifact's date does not exist, the absence
\* is reported and exiftool -geotag is not run for that artifact.
C5_MissingTrackSkipsWrite ==
    command = "exif" =>
        \A i \in 1..Len(photos) :
            (Visited(i) /\ date_taken(photos[i]) # None
             /\ gpx_path(date_taken(photos[i]).date) \notin DOMAIN files) =>
                /\ <<i, "gpx not found">> \in log
                /\ i \notin toolCalls

\* ================================================================== import
\* A timelinePath record: "point" after replace/strip/split(", ") is a list
\* of tokens (whole degrees), "time" is an ISO timestamp; either key may be
\* missing and the timestamp may be malformed.
Missing == [kind |-> "missing"]
Malformed == [kind |-> "malformed"]
Iso(t, h) == [kind |-> "iso", date |-> t, hour |-> h]
Record(pt, tm) == [point |-> pt, time |-> tm]

Records ==
    { Record(List(<<Num(49), Num(18)>>), Iso(Date(2024, 1, 15), 10)),
      Record(List(<<Num(50), Num(19)>>), Iso(Date(2024, 1, 15), 9)),
      Record(List(<<Num(49), Num(18)>>), Iso(Date(2024, 3, 7), 8)),
      Record(List(<<Num(95), Num(200)>>), Iso(Date(2023, 11, 1), 12)),
      Record(List(<<NotNum, Num(18)>>), Iso(Date(2024, 1, 15), 10)),
      Record(List(<<Num(49)>>), Iso(Date(2024, 1, 15), 10)),
      Record(Missing, Iso(Date(2024, 1, 15), 10)),
      Record(List(<<Num(49), Num(18)>>), Malformed),
      Record(List(<<Num(49), Num(18)>>), Missing) }

Segments == UNION {[1..n -> Records] : n \in 0..MaxPath}
Documents == UNION {[1..n -> Segments] : n \in 0..MaxSegments}

\* date.isoformat(): "YYYY-MM-DD" as its characters.
isoformat(t) ==
    strftime_Y(t) \o <<"-">> \o strftime_m(t) \o <<"-">> \o strftime_d(t)

\* datetime.strptime(date, "%Y-%m-%d")
strptime(c) ==
    Date(1000 * DigitVal(c[1]) + 100 * DigitVal(c[2]) + 10 * DigitVal(c[3])
             + DigitVal(c[4]),
         10 * DigitVal(c[6]) + DigitVal(c[7]),
         10 * DigitVal(c[9]) + DigitVal(c[10]))

Skip == [kind |-> "skip"]
Point(lat, lon, time) ==
    [kind |-> "point", lat |-> lat, lon |-> lon, time |-> time]

\* The body of the try in parse_json: a point, Skip on KeyError or
\* ValueError, Raise on the IndexError of coords[1].
parse_point(r) ==
    IF r.point = Missing THEN Skip                      \* KeyError
    ELSE LET coords == r.point.tokens
         IN  IF ~coords[1].num THEN Skip                \* ValueError
             ELSE IF Len(coords) < 2 THEN Raise         \* IndexError
             ELSE IF ~coords[2].num THEN Skip           \* ValueError
             ELSE IF r.time = Missing THEN Skip         \* KeyError
             ELSE IF r.time = Malformed THEN Skip       \* ValueError
             ELSE Point(coords[1].val, coords[2].val, r.time)

\* points_by_date[date].append(...): the dict as a sequence of groups in
\* insertion order.
RECURSIVE group_append(_, _, _)
group_append(groups, date, pt) ==
    IF groups = <<>> THEN <<[date |-> date, points |-> <<pt>>]>>
    ELSE IF groups[1].date = date
    THEN <<[groups[1] EXCEPT !.points = Append(@, pt)]>> \o Tail(groups)
    ELSE <<groups[1]>> \o group_append(Tail(groups), date, pt)

RECURSIVE flatten(_)
flatten(segs) == IF segs = <<>> THEN <<>> ELSE segs[1] \o flatten(Tail(segs))

RECURSIVE parse_loop(_, _)
parse_loop(st, recs) ==
    IF recs = <<>> \/ st.raised THEN st
    ELSE LET p == parse_point(recs[1])
         IN  IF p = Raise THEN [st EXCEPT !.raised = TRUE]
             ELSE IF p = Skip THEN parse_loop(st, Tail(recs))
             ELSE parse_loop(
                    [st EXCEPT !.groups =
                        group_append(@, isoformat(p.time.date), p)],
                    Tail(recs))

\* parse_json: the groups by date, or raised.
parse_json(d) == parse_loop([groups |-> <<>>, raised |-> FALSE], flatten(d))

\* The loop of gpx_import: one day file per group, its directories made.
RECURSIVE write_groups(_, _)
write_groups(fs, groups) ==
    IF groups = <<>> THEN fs
    ELSE LET curr_date == strptime(groups[1].date)
             path == day_path(GpxRoot, curr_date)
             f == [q \in DOMAIN fs.files \cup {path} |->
                      IF q = path THEN groups[1].points ELSE fs.files[q]]
         IN  write_groups(
                [dirs |-> fs.dirs \cup {SubSeq(path, 1, 2), SubSeq(path, 1, 3)},
                 files |-> f],
                Tail(groups))

InitImport ==
    /\ command = "import" /\ pc = "start"
    /\ inputExists \in BOOLEAN
    /\ doc \in Documents
    /\ dirs \in {{}, {<<GpxRoot>>}}
    /\ files = <<>>
    /\ lookup = None
    /\ ExifIdle /\ On1Idle /\ DmsIdle

\* gpx_import(args)
GpxImport ==
    /\ command = "import" /\ pc = "start"
    /\ IF ~inputExists
       THEN /\ pc' = "notfound"
            /\ dirs' = dirs \cup {<<GpxRoot>>}      \* os.makedirs came first
            /\ UNCHANGED files
       ELSE LET parsed == parse_json(doc)
                fs == write_groups([dirs |-> dirs \cup {<<GpxRoot>>},
                                    files |-> files], parsed.groups)
            IN  IF parsed.raised
                THEN /\ pc' = "raised"
                     /\ dirs' = dirs \cup {<<GpxRoot>>}
                     /\ UNCHANGED files
                ELSE /\ pc' = "done"
                     /\ dirs' = fs.dirs
                     /\ files' = fs.files
    /\ UNCHANGED <<command, inputExists, doc, lookup, exifVars, on1Vars,
                   dmsVars>>

\* ExifTagger.gpx_path(t) on the tree the import left, with the same root.
GpxPath(t) ==
    /\ command = "import" /\ pc \in {"done", "raised", "notfound"}
    /\ lookup' = [kind |-> "path", date |-> t, path |-> gpx_path(t),
                  exists |-> gpx_path(t) \in DOMAIN files]
    /\ UNCHANGED <<command, pc, inputExists, doc, dirs, files, exifVars,
                   on1Vars, dmsVars>>

NextImport == GpxImport \/ \E t \in Dates : GpxPath(t)
SpecImport == InitImport /\ [][NextImport]_vars

\* ------------------------------------------------------------------- main
Init == InitImport \/ InitExif \/ InitOn1
Next == NextImport \/ NextExif \/ NextOn1
Spec == Init /\ [][Next]_vars

\* A record that holds two numeric coordinates and a well-formed timestamp.
WellFormed(r) ==
    /\ r.point # Missing /\ Len(r.point.tokens) >= 2
    /\ r.point.tokens[1].num /\ r.point.tokens[2].num
    /\ r.time # Missing /\ r.time # Malformed
OnDate(r, t) == WellFormed(r) /\ r.time.date = t
AsPoint(r) == Point(r.point.tokens[1].val, r.point.tokens[2].val, r.time)
RECURSIVE PointsOn(_, _)
PointsOn(recs, t) ==
    IF recs = <<>> THEN <<>>
    ELSE (IF OnDate(recs[1], t) THEN <<AsPoint(recs[1])>> ELSE <<>>)
         \o PointsOn(Tail(recs), t)
DocDates == {t \in Dates : PointsOn(flatten(doc), t) # <<>>}

\* C6: the import of an existing document never raises; it writes exactly
\* one day file per date that has a well-formed record, holding exactly the
\* well-formed records of that date in source order.
C6_ImportGroupsAndSkips ==
    command = "import" =>
        /\ pc # "raised"
        /\ pc = "done" =>
              /\ DOMAIN files = {day_path(GpxRoot, t) : t \in DocDates}
              /\ \A t \in DocDates :
                    files[day_path(GpxRoot, t)] = PointsOn(flatten(doc), t)

\* C7: every point written to a track file has its latitude in -90 .. 90 and
\* its longitude in -180 .. 180.
C7_StoredPointsInRange ==
    command = "import" =>
        \A q \in DOMAIN files : \A i \in 1..Len(files[q]) :
            /\ files[q][i].lat >= -90 /\ files[q][i].lat <= 90
            /\ files[q][i].lon >= -180 /\ files[q][i].lon <= 180

\* C8: when the input document does not exist, gpx_import creates or changes
\* no directory and no file, the output root included.
C8_MissingInputTouchesNothing ==
    [][(command = "import" /\ pc = "start" /\ pc' # "start" /\ ~inputExists)
        => (dirs' = dirs /\ files' = files)]_vars

\* C10: after the import of an existing document into an empty tree, the path
\* gpx_path computes for a date exists exactly when the document held a
\* well-formed record of that date, and it is root/YYYY/MM/DD.gpx.
C10_ImportAndLookupAgree ==
    (command = "import" /\ inputExists /\ lookup # None) =>
        /\ lookup.exists <=> lookup.date \in DocDates
        /\ lookup.path = day_path(GpxRoot, lookup.date)
        /\ \A t \in Dates : t # lookup.date => gpx_path(t) # lookup.path

====
